---------------------------- MODULE Spec2Model ----------------------------
(***************************************************************************)
(* A model of src/server.js: four Express handlers (signup, login, grade,  *)
(* leaderboard) over two PostgreSQL tables.  A handler runs from one await *)
(* to the next atomically; every SQL statement is one atomic step of the   *)
(* database, so the steps of concurrent requests interleave at statement   *)
(* granularity.  Every statement may also fail for a reason outside the    *)
(* program (lost connection, server down): the fault choice of the step.   *)
(***************************************************************************)
EXTENDS Integers, Sequences, FiniteSets, Bags, TLC

VARIABLES
    users,          \* bag of rows of table users
    progress,       \* bag of rows of table student_progress
    usersExists,    \* table users has been created
    progressExists, \* table student_progress has been created
    now,            \* the database clock, NOW()
    dbUrl,          \* process.env.DATABASE_URL is set
    groqKey,        \* process.env.GROQ_API_KEY is set
    req             \* the requests in flight: one record per request slot

vars == <<users, progress, usersExists, progressExists, now, dbUrl, groqKey, req>>

(***************************** bounds **************************************)
MaxClock == 1
MaxContentLen == 2

Reqs == {1, 2}

(************************* JavaScript values *******************************)
\* undefined, as the value of a missing property
Undefined == "undefined"

\* !x for the string fields of a request body: missing and "" are both falsy
Falsy(x) == x = "" \/ x = Undefined

\* Number(questionId), line 195: nan is TRUE where the result is NaN
Number(q) ==
    CASE q = "1" -> [nan |-> FALSE, val |-> 1]
      [] q = "2" -> [nan |-> FALSE, val |-> 2]
      [] q = "null" -> [nan |-> FALSE, val |-> 0]
      [] OTHER -> [nan |-> TRUE, val |-> 0]

(****************************** inputs *************************************)
NoBody ==
    [username |-> Undefined, firstName |-> Undefined, lastName |-> Undefined,
     passwordHash |-> Undefined, question |-> Undefined, answer |-> Undefined,
     questionId |-> Undefined]

SignupBody(u, f, l, h) ==
    [NoBody EXCEPT !.username = u, !.firstName = f, !.lastName = l, !.passwordHash = h]

LoginBody(u, h) == [NoBody EXCEPT !.username = u, !.passwordHash = h]

GradeBody(q, a, u, id) ==
    [NoBody EXCEPT !.question = q, !.answer = a, !.username = u, !.questionId = id]

SignupBodies ==
    { SignupBody("ana", "Ana", "Lee", "h1"),
      SignupBody("ana", "Anna", "Li", "h2"),
      SignupBody("bob", "Bob", "Ray", "h1"),
      SignupBody("bob", "Bob", "Ray", Undefined) }

LoginBodies ==
    { LoginBody("ana", "h1"), LoginBody("ana", "h2"), LoginBody("bob", "h1"),
      LoginBody(Undefined, "h1") }

GradeBodies ==
    { GradeBody("What is a pointer?", "An address.", "ana", "1"),
      GradeBody("What is a pointer?", "An address.", "bob", "1"),
      GradeBody("What is a pointer?", "An address.", Undefined, Undefined),
      GradeBody("What is a pointer?", Undefined, "ana", "1") }

AllGradeBodies ==
    { GradeBody(q, a, u, id) :
        q \in {"What is a pointer?", Undefined}, a \in {"idk", Undefined},
        u \in {"ana", "", Undefined}, id \in {Undefined, "null", "1", "abc"} }

\* ORDER BY u.username ASC, line 226: the collation order of the usernames
UsernameRank(u) == CASE u = "ana" -> 1 [] u = "bob" -> 2 [] OTHER -> 3

(******************** the judgment service's text **************************)
\* The content of the service's message is a sequence of pieces of text.
JCorrect   == "{\"status\": \"Correct\"}"
JIncorrect == "{\"status\": \"Incorrect\", \"hint\": \"Check the definition.\"}"
JNoHint    == "{\"status\": \"Incorrect\"}"
JOther     == "{\"grade\": \"F\"}"
JNull      == "null"
TCorrect   == "Correct"
TIncorrect == "Incorrect"
TWrong     == "Wrong"
\* the Markdown code fences, each backquote written as a quote
FenceJson  == "'''json"
Fence      == "'''"
Space      == " "

Pieces ==
    {JCorrect, JIncorrect, JNoHint, JOther, JNull, TCorrect, TIncorrect, TWrong,
     FenceJson, Fence, Space}

\* every content of at most MaxContentLen pieces
Contents == UNION {[1..n -> Pieces] : n \in 0..MaxContentLen}

\* the contents the requests of Spec draw from
SomeContents == {<<JCorrect>>, <<JIncorrect>>}

\* String.prototype.trim, lines 162 and 165
RECURSIVE TrimLeft(_)
TrimLeft(s) == IF s # <<>> /\ Head(s) = Space THEN TrimLeft(Tail(s)) ELSE s

RECURSIVE TrimRight(_)
TrimRight(s) ==
    IF s # <<>> /\ s[Len(s)] = Space THEN TrimRight(SubSeq(s, 1, Len(s) - 1)) ELSE s

Trim(s) == TrimRight(TrimLeft(s))

\* raw.replace(fence, ''), line 165: every fence, with or without json, goes
StripFences(s) == SelectSeq(s, LAMBDA p : p \notin {FenceJson, Fence})

\* raw.toLowerCase().includes('correct'), line 168
LowerIncludesCorrect(s) ==
    \E i \in 1..Len(s) : s[i] \in {JCorrect, JIncorrect, JNoHint, TCorrect, TIncorrect}

\* the value of `parsed`; t is "undefined" before the assignment
NoParsed == [t |-> Undefined, status |-> Undefined, hint |-> Undefined]

Verdict(st, h) == [t |-> "object", status |-> st, hint |-> h]

\* JSON.parse(clean), line 166: ok is FALSE where it throws
JsonParse(s) ==
    IF Len(s) # 1 THEN [ok |-> FALSE, value |-> NoParsed]
    ELSE CASE s[1] = JCorrect   -> [ok |-> TRUE, value |-> Verdict("Correct", Undefined)]
           [] s[1] = JIncorrect -> [ok |-> TRUE, value |-> Verdict("Incorrect", "Check the definition.")]
           [] s[1] = JNoHint    -> [ok |-> TRUE, value |-> Verdict("Incorrect", Undefined)]
           [] s[1] = JOther     -> [ok |-> TRUE, value |-> Verdict(Undefined, Undefined)]
           [] s[1] = JNull      -> [ok |-> TRUE, value |-> [NoParsed EXCEPT !.t = "null"]]
           [] OTHER             -> [ok |-> FALSE, value |-> NoParsed]

\* the fallback of the catch, lines 168-170
Fallback(raw) ==
    IF LowerIncludesCorrect(raw)
    THEN Verdict("Correct", Undefined)
    ELSE Verdict("Incorrect", "Review the concept and try again.")

\* lines 164-171: strict parse, then the fallback
ParseVerdict(raw) ==
    LET clean == Trim(StripFences(raw))
        strict == JsonParse(clean)
    IN  IF strict.ok THEN strict.value ELSE Fallback(raw)

(***************************** responses ***********************************)
NoResp == [status |-> 0, body |-> [none |-> TRUE]]

ErrorResp(code, msg) == [status |-> code, body |-> [error |-> msg]]

(***************************** requests ************************************)
\* A request's record holds the handler's locals (body, sql, user, raw,
\* parsed, canSave), its place (pc), the response sent (resp) and the message
\* it logged (err).  Two fields are history, written and never read by a
\* handler: pre, whether the request's username was registered (for the
\* leaderboard: any user was) when the request arrived, and savedAt, the
\* database time of the upsert logged by line 200.
Idle ==
    [kind |-> "none", pc |-> "idle", body |-> NoBody, sql |-> Undefined,
     resp |-> NoResp, err |-> "", user |-> NoBody, raw |-> <<>>,
     parsed |-> NoParsed, canSave |-> FALSE, pre |-> FALSE, savedAt |-> -1]

\* the messages of the errors a handler can catch
ErrNoUrl      == "DATABASE_URL is not set"
ErrStorage    == "storage failure"
ErrDuplicate  == "duplicate key value violates unique constraint"
ErrNoRelation == "relation does not exist"
ErrNotInteger == "invalid input syntax for type integer"

\* Finally with the finally block left out
FinallyLeak(sql) == sql

\* finally { if (sql) await sql.end({ timeout: 5 }).catch(() => {}) }
Finally(sql) == IF sql # Undefined THEN "ended" ELSE sql

\* A handler's last steps: the response is sent, the finally block runs.
Finish(r, resp, err) ==
    [r EXCEPT !.resp = resp, !.err = err, !.sql = Finally(r.sql), !.pc = "done"]

(****************************** tables *************************************)
UserRow(b) ==
    [username |-> b.username, first_name |-> b.firstName,
     last_name |-> b.lastName, password_hash |-> b.passwordHash]

\* SELECT ... FROM t WHERE username = u
WhereUsername(t, u) == [row \in {x \in DOMAIN t : x.username = u} |-> t[row]]

Count(t) == BagCardinality(t)

\* InsertUser without the UNIQUE constraint on username
InsertUserNoUnique(t, row) == [ok |-> TRUE, table |-> t (+) SetToBag({row})]

\* InsertUser as an upsert that overwrites the stored row
InsertUserOverwrite(t, row) ==
    [ok |-> TRUE,
     table |-> (t (-) WhereUsername(t, row.username)) (+) SetToBag({row})]

\* INSERT INTO users ..., lines 50-53, under UNIQUE (username), line 37
InsertUser(t, row) ==
    IF Count(WhereUsername(t, row.username)) > 0
    THEN [ok |-> FALSE, table |-> t]
    ELSE [ok |-> TRUE, table |-> t (+) SetToBag({row})]

(****************************** signup *************************************)
\* lines 24-32
SignupStart(r, b) ==
    /\ req[r].pc = "idle"
    /\ LET fresh == [Idle EXCEPT !.kind = "signup", !.body = b,
                                 !.pre = Count(WhereUsername(users, b.username)) > 0]
       IN  req' = [req EXCEPT ![r] =
            IF Falsy(b.username) \/ Falsy(b.firstName) \/ Falsy(b.lastName)
                   \/ Falsy(b.passwordHash)
            THEN Finish(fresh, ErrorResp(400, "Missing fields"), "")
            ELSE IF ~dbUrl
            THEN Finish(fresh, ErrorResp(500, "Server error during signup"), ErrNoUrl)
            ELSE [fresh EXCEPT !.sql = "open", !.pc = "create_users"]]
    /\ UNCHANGED <<users, progress, usersExists, progressExists, now, dbUrl, groqKey>>

SignupFailed(r, err) ==
    req' = [req EXCEPT ![r] = Finish(@, ErrorResp(500, "Server error during signup"), err)]

\* lines 34-43
SignupCreateTable(r) ==
    /\ req[r].kind = "signup" /\ req[r].pc = "create_users"
    /\ \/ /\ usersExists' = TRUE
          /\ req' = [req EXCEPT ![r].pc = "select"]
       \/ /\ SignupFailed(r, ErrStorage)
          /\ UNCHANGED usersExists
    /\ UNCHANGED <<users, progress, progressExists, now, dbUrl, groqKey>>

\* lines 45-48
SignupSelect(r) ==
    /\ req[r].kind = "signup" /\ req[r].pc = "select"
    /\ \/ LET existing == WhereUsername(users, req[r].body.username)
          IN  req' = [req EXCEPT ![r] =
                IF Count(existing) > 0
                THEN Finish(@, ErrorResp(409, "Username is already taken."), "")
                ELSE [@ EXCEPT !.pc = "insert"]]
       \/ SignupFailed(r, ErrStorage)
    /\ UNCHANGED <<users, progress, usersExists, progressExists, now, dbUrl, groqKey>>

\* lines 50-55
SignupInsert(r) ==
    /\ req[r].kind = "signup" /\ req[r].pc = "insert"
    /\ \/ LET b == req[r].body
              ins == InsertUser(users, UserRow(b))
          IN  IF ins.ok
              THEN /\ users' = ins.table
                   /\ req' = [req EXCEPT ![r] = Finish(@,
                        [status |-> 200,
                         body |-> [success |-> TRUE, username |-> b.username,
                                   firstName |-> b.firstName, lastName |-> b.lastName]],
                        "")]
              ELSE /\ SignupFailed(r, ErrDuplicate)
                   /\ UNCHANGED users
       \/ /\ SignupFailed(r, ErrStorage)
          /\ UNCHANGED users
    /\ UNCHANGED <<progress, usersExists, progressExists, now, dbUrl, groqKey>>

(******************************* login *************************************)
\* lines 66-74
LoginStart(r, b) ==
    /\ req[r].pc = "idle"
    /\ LET fresh == [Idle EXCEPT !.kind = "login", !.body = b,
                                 !.pre = Count(WhereUsername(users, b.username)) > 0]
       IN  req' = [req EXCEPT ![r] =
            IF Falsy(b.username) \/ Falsy(b.passwordHash)
            THEN Finish(fresh, ErrorResp(400, "Missing fields"), "")
            ELSE IF ~dbUrl
            THEN Finish(fresh, ErrorResp(500, "Server error during login"), ErrNoUrl)
            ELSE [fresh EXCEPT !.sql = "open", !.pc = "select_user"]]
    /\ UNCHANGED <<users, progress, usersExists, progressExists, now, dbUrl, groqKey>>

LoginFailed(r, err) ==
    req' = [req EXCEPT ![r] = Finish(@, ErrorResp(500, "Server error during login"), err)]

\* lines 76-88; rows[0] is any of the rows the SELECT returns
LoginSelectUser(r) ==
    /\ req[r].kind = "login" /\ req[r].pc = "select_user"
    /\ \/ /\ ~usersExists
          /\ LoginFailed(r, ErrNoRelation)
       \/ /\ usersExists
          /\ LET rows == WhereUsername(users, req[r].body.username)
             IN  IF Count(rows) = 0
                 THEN req' = [req EXCEPT ![r] = Finish(@,
                        ErrorResp(401, "Username not found. Check spelling or sign up."), "")]
                 ELSE \E user \in DOMAIN rows :
                        req' = [req EXCEPT ![r] =
                          IF user.password_hash # req[r].body.passwordHash
                          THEN Finish(@, ErrorResp(401, "Incorrect password."), "")
                          ELSE [@ EXCEPT !.user = user, !.pc = "select_progress"]]
       \/ LoginFailed(r, ErrStorage)
    /\ UNCHANGED <<users, progress, usersExists, progressExists, now, dbUrl, groqKey>>

\* progress.map(r => r.question_id), line 93: the order of the rows is the
\* database's choice, so the list is kept as the set of its elements
CompletedIds(t, u) == {row.question_id : row \in DOMAIN WhereUsername(t, u)}

\* lines 90-101
LoginSelectProgress(r) ==
    /\ req[r].kind = "login" /\ req[r].pc = "select_progress"
    /\ \/ /\ ~progressExists
          /\ LoginFailed(r, ErrNoRelation)
       \/ /\ progressExists
          /\ LET user == req[r].user
             IN  req' = [req EXCEPT ![r] = Finish(@,
                    [status |-> 200,
                     body |-> [success |-> TRUE, username |-> user.username,
                               firstName |-> user.first_name, lastName |-> user.last_name,
                               completedIds |-> CompletedIds(progress, req[r].body.username)]],
                    "")]
       \/ LoginFailed(r, ErrStorage)
    /\ UNCHANGED <<users, progress, usersExists, progressExists, now, dbUrl, groqKey>>

(******************************* grade *************************************)
\* CanSave without the test of questionId
CanSaveUserOnly(b) == ~Falsy(b.username)

\* line 119
CanSave(b) == ~Falsy(b.username) /\ b.questionId # Undefined /\ b.questionId # "null"

\* lines 112-124
GradeStart(r, b) ==
    /\ req[r].pc = "idle"
    /\ LET fresh == [Idle EXCEPT !.kind = "grade", !.body = b]
       IN  req' = [req EXCEPT ![r] =
            IF Falsy(b.question) \/ Falsy(b.answer)
            THEN Finish(fresh, ErrorResp(400, "Missing question or answer"), "")
            ELSE IF ~groqKey
            THEN Finish(fresh, ErrorResp(500, "GROQ_API_KEY is not configured"), "")
            ELSE [fresh EXCEPT !.canSave = CanSave(b), !.pc = "fetch"]]
    /\ UNCHANGED <<users, progress, usersExists, progressExists, now, dbUrl, groqKey>>

\* GradeRespond with the storage error rethrown to the caller
GradeRespondFatal(r, err, rejects) ==
    IF err # "" \/ rejects
    THEN Finish(r, ErrorResp(500, "Internal server error during grading"), err)
    ELSE Finish(r, [status |-> 200, body |-> r.parsed], err)

\* lines 201-208, the end of the persistence block and the response: err is
\* what the catch of line 201 logged, and rejects is whether sql.end()
\* rejected, which the .catch of line 204 swallows
GradeRespond(r, err, rejects) == Finish(r, [status |-> 200, body |-> r.parsed], err)

\* parsed.status of line 178 where parsed is null: the TypeError leaves the
\* async handler, and the framework either never answers or answers 500
GradeUnhandled(r) ==
    { Finish(r, NoResp, "TypeError"),
      Finish(r, ErrorResp(500, "Internal Server Error"), "TypeError") }

\* lines 178-181 and 208: the step after the verdict is parsed
AfterVerdict(r) ==
    IF r.parsed.t = "null" THEN GradeUnhandled(r)
    ELSE IF r.parsed.status = "Correct" /\ r.canSave
    THEN IF ~dbUrl THEN {GradeRespond(r, ErrNoUrl, FALSE)}
         ELSE {[r EXCEPT !.sql = "open", !.pc = "create_progress"]}
    ELSE {GradeRespond(r, "", FALSE)}

\* lines 139-176: the outcome of the external call
FetchOutcomes == {"rejects", "not_ok", "bad_body", "no_content", "ok"}

\* only an answered call with a content carries one
ContentsOf(outcome, S) == IF outcome = "ok" THEN S ELSE {<<>>}

GradeFetch(r, outcome, content) ==
    /\ req[r].kind = "grade" /\ req[r].pc = "fetch"
    /\ CASE outcome = "not_ok" ->
              req' = [req EXCEPT ![r] = Finish(@, ErrorResp(502, "AI service error"), "")]
         [] outcome \in {"rejects", "bad_body"} ->
              req' = [req EXCEPT ![r] =
                        Finish(@, ErrorResp(500, "Internal server error during grading"), "")]
         [] OTHER ->
              LET raw == IF outcome = "no_content" THEN <<>> ELSE Trim(content)
                  graded == [req[r] EXCEPT !.raw = raw, !.parsed = ParseVerdict(raw)]
              IN  \E next \in AfterVerdict(graded) : req' = [req EXCEPT ![r] = next]
    /\ UNCHANGED <<users, progress, usersExists, progressExists, now, dbUrl, groqKey>>

\* lines 183-191
GradeCreateTable(r) ==
    /\ req[r].kind = "grade" /\ req[r].pc = "create_progress"
    /\ \/ /\ progressExists' = TRUE
          /\ req' = [req EXCEPT ![r].pc = "upsert"]
       \/ /\ \E rejects \in BOOLEAN :
                req' = [req EXCEPT ![r] = GradeRespond(@, ErrStorage, rejects)]
          /\ UNCHANGED progressExists
    /\ UNCHANGED <<users, progress, usersExists, now, dbUrl, groqKey>>

WherePair(t, u, q) ==
    [row \in {x \in DOMAIN t : x.username = u /\ x.question_id = q} |-> t[row]]

\* Upsert as a plain INSERT into a table without the unique constraint
UpsertNoConflict(t, u, q, ts) ==
    t (+) SetToBag({[username |-> u, question_id |-> q, completed_at |-> ts]})

\* INSERT ... ON CONFLICT (username, question_id) DO UPDATE SET completed_at
\* = NOW(), lines 193-198, under UNIQUE (username, question_id), line 189
Upsert(t, u, q, ts) ==
    IF Count(WherePair(t, u, q)) > 0
    THEN (t (-) WherePair(t, u, q))
         (+) SetToBag({[username |-> u, question_id |-> q, completed_at |-> ts]})
    ELSE t (+) SetToBag({[username |-> u, question_id |-> q, completed_at |-> ts]})

\* lines 193-208
GradeUpsert(r) ==
    /\ req[r].kind = "grade" /\ req[r].pc = "upsert"
    /\ \E rejects \in BOOLEAN :
        \/ LET id == Number(req[r].body.questionId)
           IN  IF id.nan
               THEN /\ req' = [req EXCEPT ![r] = GradeRespond(@, ErrNotInteger, rejects)]
                    /\ UNCHANGED progress
               ELSE /\ progress' = Upsert(progress, req[r].body.username, id.val, now)
                    /\ req' = [req EXCEPT ![r] =
                          GradeRespond([@ EXCEPT !.savedAt = now], "", rejects)]
        \/ /\ req' = [req EXCEPT ![r] = GradeRespond(@, ErrStorage, rejects)]
           /\ UNCHANGED progress
    /\ UNCHANGED <<users, usersExists, progressExists, now, dbUrl, groqKey>>

(**************************** leaderboard **********************************)
\* GROUP BY u.username, u.first_name, u.last_name, line 225
Groups(us) ==
    {[username |-> x.username, first_name |-> x.first_name, last_name |-> x.last_name] :
        x \in DOMAIN us}

\* COUNT(sp.question_id) over the rows of users LEFT JOIN student_progress
\* that fall in group g, lines 222-224
QuestionsDone(us, sp, g) ==
    Count([x \in {y \in DOMAIN us : /\ y.username = g.username
                                    /\ y.first_name = g.first_name
                                    /\ y.last_name = g.last_name} |-> us[x]])
        * Count(WhereUsername(sp, g.username))

\* ORDER BY questions_done DESC, u.username ASC, line 226
Before(a, b) ==
    \/ a.done > b.done
    \/ a.done = b.done /\ UsernameRank(a.username) < UsernameRank(b.username)

RECURSIVE Ordered(_)
Ordered(S) ==
    IF S = {} THEN <<>>
    ELSE LET first == CHOOSE a \in S : \A b \in S \ {a} : ~Before(b, a)
         IN  <<first>> \o Ordered(S \ {first})

\* lines 217-234
Leaderboard(us, sp) ==
    Ordered({[username |-> g.username, firstName |-> g.first_name,
              lastName |-> g.last_name, done |-> QuestionsDone(us, sp, g)] :
                g \in Groups(us)})

\* lines 212-215
LeaderboardStart(r) ==
    /\ req[r].pc = "idle"
    /\ LET fresh == [Idle EXCEPT !.kind = "leaderboard", !.pre = Count(users) > 0]
       IN  req' = [req EXCEPT ![r] =
            IF ~dbUrl
            THEN Finish(fresh, ErrorResp(500, "Could not load leaderboard"), ErrNoUrl)
            ELSE [fresh EXCEPT !.sql = "open", !.pc = "query"]]
    /\ UNCHANGED <<users, progress, usersExists, progressExists, now, dbUrl, groqKey>>

LeaderboardFailed(r, err) ==
    req' = [req EXCEPT ![r] = Finish(@, ErrorResp(500, "Could not load leaderboard"), err)]

\* lines 217-244
LeaderboardQuery(r) ==
    /\ req[r].kind = "leaderboard" /\ req[r].pc = "query"
    /\ \/ /\ ~usersExists \/ ~progressExists
          /\ LeaderboardFailed(r, ErrNoRelation)
       \/ /\ usersExists /\ progressExists
          /\ req' = [req EXCEPT ![r] = Finish(@,
                [status |-> 200, body |-> [list |-> Leaderboard(users, progress)]], "")]
       \/ LeaderboardFailed(r, ErrStorage)
    /\ UNCHANGED <<users, progress, usersExists, progressExists, now, dbUrl, groqKey>>

(************************** the environment ********************************)
\* The client has its response and the slot takes the next request.
Recycle(r) ==
    /\ req[r].pc = "done"
    /\ req' = [req EXCEPT ![r] = Idle]
    /\ UNCHANGED <<users, progress, usersExists, progressExists, now, dbUrl, groqKey>>

\* Time passes at the database.
Tick ==
    /\ now < MaxClock
    /\ now' = now + 1
    /\ UNCHANGED <<users, progress, usersExists, progressExists, dbUrl, groqKey, req>>

Init ==
    /\ users = EmptyBag
    /\ progress = EmptyBag
    /\ usersExists = FALSE
    /\ progressExists = FALSE
    /\ now = 0
    /\ dbUrl \in BOOLEAN
    /\ groqKey \in BOOLEAN
    /\ req = [r \in Reqs |-> Idle]

Next ==
    \/ \E r \in Reqs, b \in SignupBodies : SignupStart(r, b)
    \/ \E r \in Reqs : SignupCreateTable(r)
    \/ \E r \in Reqs : SignupSelect(r)
    \/ \E r \in Reqs : SignupInsert(r)
    \/ \E r \in Reqs, b \in LoginBodies : LoginStart(r, b)
    \/ \E r \in Reqs : LoginSelectUser(r)
    \/ \E r \in Reqs : LoginSelectProgress(r)
    \/ \E r \in Reqs, b \in GradeBodies : GradeStart(r, b)
    \/ \E r \in Reqs, o \in FetchOutcomes :
            \E c \in ContentsOf(o, SomeContents) : GradeFetch(r, o, c)
    \/ \E r \in Reqs : GradeCreateTable(r)
    \/ \E r \in Reqs : GradeUpsert(r)
    \/ \E r \in Reqs : LeaderboardStart(r)
    \/ \E r \in Reqs : LeaderboardQuery(r)
    \/ \E r \in Reqs : Recycle(r)
    \/ Tick

Spec == Init /\ [][Next]_vars

\* One grading request at a time, over every request body and every content
\* of the service's message up to MaxContentLen pieces.
NextGrader ==
    \/ \E b \in AllGradeBodies : GradeStart(1, b)
    \/ \E o \in FetchOutcomes : \E c \in ContentsOf(o, Contents) : GradeFetch(1, o, c)
    \/ GradeCreateTable(1)
    \/ GradeUpsert(1)
    \/ Recycle(1)

SpecGrader == Init /\ [][NextGrader]_vars


(******************************* claims ************************************)
Done(r) == req[r].pc = "done"

IsDone(r, kind) == req[r].kind = kind /\ Done(r)

\* a signup body with all four fields
FourFields(b) ==
    /\ b.username \notin {"", Undefined} /\ b.firstName \notin {"", Undefined}
    /\ b.lastName \notin {"", Undefined} /\ b.passwordHash \notin {"", Undefined}

\* a grade body with both username and questionId
BothSupplied(b) ==
    b.username \notin {"", Undefined} /\ b.questionId \notin {Undefined, "null"}

\* the verdict of the grading of request r was Correct
GradedCorrect(r) == req[r].kind = "grade" /\ req[r].parsed.status = "Correct"

\* C1: in every reachable state the users table holds at most one record per
\* username, whatever the interleaving of the signups' statements.
C1_UsernameUnique ==
    \A x \in DOMAIN users : Count(WhereUsername(users, x.username)) = 1

\* Two overlapping signups for one username: both passed the SELECT, one
\* inserted and the other was refused by the unique constraint.
C1_Witness ==
    \E r, s \in Reqs :
        /\ r # s /\ IsDone(r, "signup") /\ IsDone(s, "signup")
        /\ req[r].body.username = req[s].body.username
        /\ req[r].resp.status = 200
        /\ req[s].err = ErrDuplicate

\* C2, as claimed: a signup with all four fields whose username was already
\* registered when it arrived is answered 409.
C2_SecondSignup409 ==
    \A r \in Reqs :
        IsDone(r, "signup") /\ FourFields(req[r].body) /\ req[r].pre
            => req[r].resp.status = 409

\* at most one signup per username is answered 200, and a signup that finds
\* its username registered is answered 409, or 500 when a statement failed
C2_Responses ==
    /\ \A r \in Reqs :
        IsDone(r, "signup") /\ FourFields(req[r].body) /\ req[r].pre
            => \/ req[r].resp.status = 409 /\ req[r].err = ""
               \/ req[r].resp.status = 500 /\ req[r].err = ErrStorage
    /\ \A r, s \in Reqs :
        /\ r # s /\ IsDone(r, "signup") /\ IsDone(s, "signup")
        /\ req[r].body.username = req[s].body.username
        => ~(req[r].resp.status = 200 /\ req[s].resp.status = 200)
    /\ \A r \in Reqs :
        IsDone(r, "signup") /\ req[r].resp.status = 200
            => UserRow(req[r].body) \in DOMAIN users

\* a stored user record is never changed or removed
C2_RecordsKept ==
    \A x \in DOMAIN users : x \in DOMAIN users' /\ users'[x] = users[x]

\* C2, amended: of the signups for one username at most one is answered 200
\* and its record is stored; a later one with all four fields is answered 409,
\* or 500 when one of its statements fails, never 200; and no step changes a
\* stored record.
C2_Amended == []C2_Responses /\ [][C2_RecordsKept]_vars

\* A second signup for a registered username, carrying other fields, was
\* answered 409 and the stored record is still the first one's.
C2_Witness ==
    \E r \in Reqs :
        /\ IsDone(r, "signup") /\ req[r].pre /\ req[r].resp.status = 409
        /\ UserRow(req[r].body) \notin DOMAIN users
        /\ Count(WhereUsername(users, req[r].body.username)) = 1

\* C3: a login that arrives after its user signed up (the record is stored),
\* with that record's password hash, and none of whose statements failed for
\* an outside reason, is answered 200 with the user's fields.
C3_LoginAfterSignup ==
    \A r \in Reqs :
        /\ IsDone(r, "login") /\ req[r].pre /\ req[r].err # ErrStorage
        /\ \E x \in DOMAIN users : /\ x.username = req[r].body.username
                                   /\ x.password_hash = req[r].body.passwordHash
        => /\ req[r].resp.status = 200
           /\ req[r].resp.body.username = req[r].body.username

\* any two rows of student_progress differ in (username, question_id)
C4_OnePerPair ==
    \A x \in DOMAIN progress :
        Count(WherePair(progress, x.username, x.question_id)) = 1

\* the record of a pair is at least as recent as every recorded grading of it
C4_Latest ==
    \A r \in Reqs :
        IsDone(r, "grade") /\ req[r].savedAt >= 0
            => \E x \in DOMAIN progress :
                /\ x.username = req[r].body.username
                /\ x.question_id = Number(req[r].body.questionId).val
                /\ x.completed_at >= req[r].savedAt

\* a step that changes student_progress is the upsert of one grading: it
\* leaves one record for its pair, stamped with the time of the step, and
\* every other record as it was
C4_UpsertStep ==
    progress' # progress =>
        \E r \in Reqs :
            /\ req[r].kind = "grade" /\ req[r].pc = "upsert"
            /\ LET u == req[r].body.username
                   q == Number(req[r].body.questionId).val
                   row == [username |-> u, question_id |-> q, completed_at |-> now]
               IN  /\ DOMAIN WherePair(progress', u, q) = {row}
                   /\ progress'[row] = 1
                   /\ \A x \in DOMAIN progress :
                        ~(x.username = u /\ x.question_id = q)
                            => x \in DOMAIN progress' /\ progress'[x] = progress[x]
                   /\ \A x \in DOMAIN progress' : x # row => x \in DOMAIN progress

\* C4, as claimed: two gradings of one (username, questionId) pair, both
\* judged Correct, leave exactly one record for the pair.
C4_TwiceLeavesOne ==
    \A r, s \in Reqs :
        /\ r # s /\ IsDone(r, "grade") /\ IsDone(s, "grade")
        /\ GradedCorrect(r) /\ GradedCorrect(s)
        /\ BothSupplied(req[r].body) /\ req[r].body = req[s].body
        => Count(WherePair(progress, req[r].body.username,
                           Number(req[r].body.questionId).val)) = 1

\* C4, amended: student_progress never holds two records of one pair; every
\* grading whose upsert statement runs leaves exactly one record of its pair,
\* stamped with the time of that statement, so that after two recorded
\* gradings the record carries the later time; a grading whose persistence
\* fails leaves the table as it was.
C4_Amended == [](C4_OnePerPair /\ C4_Latest) /\ [][C4_UpsertStep]_vars

\* One pair graded Correct and recorded twice, at times 0 and 1: one record,
\* with time 1.
C4_Witness ==
    \E r, s \in Reqs :
        /\ r # s /\ IsDone(r, "grade") /\ IsDone(s, "grade")
        /\ req[r].body = req[s].body
        /\ req[r].savedAt = 0 /\ req[s].savedAt = 1
        /\ \E x \in DOMAIN progress :
            /\ x.username = req[r].body.username
            /\ x.completed_at = 1
            /\ Count(WherePair(progress, x.username, x.question_id)) = 1

\* a grading opens a connection only with a Correct verdict and both fields
C5_OpensOnlyIf ==
    \A r \in Reqs :
        req[r].kind = "grade" /\ req[r].sql # Undefined
            => GradedCorrect(r) /\ BothSupplied(req[r].body)

\* without username or questionId, a grading that reached a verdict is
\* answered 200 with it and has opened no connection
C5_StillAnswered ==
    \A r \in Reqs :
        /\ IsDone(r, "grade") /\ ~BothSupplied(req[r].body)
        /\ req[r].parsed.t = "object"
        => /\ req[r].resp.status = 200
           /\ req[r].resp.body.status = req[r].parsed.status
           /\ req[r].resp.body.hint = req[r].parsed.hint
           /\ req[r].sql = Undefined
           /\ req[r].savedAt = -1

\* student_progress changes only in a step of a grading judged Correct that
\* carries both fields
C5_ChangeOnlyIf ==
    progress' # progress =>
        \E r \in Reqs : /\ GradedCorrect(r) /\ BothSupplied(req[r].body)
                        /\ req[r].pc = "upsert" /\ req'[r].pc = "done"

\* C5: a grading opens a connection and writes student_progress only if its
\* verdict is Correct and username and questionId were both supplied; without
\* one of them it never attempts persistence and its verdict is answered 200.
C5_PersistOnlyIfCorrectAndSupplied ==
    [](C5_OpensOnlyIf /\ C5_StillAnswered) /\ [][C5_ChangeOnlyIf]_vars

\* A grading without username, judged Correct, answered 200, nothing stored.
C5_Witness ==
    \E r \in Reqs :
        /\ IsDone(r, "grade") /\ GradedCorrect(r)
        /\ req[r].body.username = Undefined /\ req[r].body.questionId = "1"
        /\ req[r].resp.status = 200 /\ req[r].sql = Undefined
        /\ progress = EmptyBag

\* the text says the answer is incorrect: fences and spaces aside, it is the
\* incorrect verdict as JSON or the word Incorrect
SaysIncorrect(raw) ==
    SelectSeq(raw, LAMBDA p : p \notin {FenceJson, Fence, Space})
        \in {<<JIncorrect>>, <<TIncorrect>>}

\* C6: a grading with username and questionId whose service answer says
\* incorrect is answered 200 with status Incorrect and a hint, and attempts no
\* write of a completion row.
C6_IncorrectNeverSaved ==
    \A r \in Reqs :
        /\ IsDone(r, "grade") /\ BothSupplied(req[r].body)
        /\ req[r].parsed.t # Undefined /\ SaysIncorrect(req[r].raw)
        => /\ req[r].resp.status = 200
           /\ req[r].resp.body.status = "Incorrect"
           /\ req[r].resp.body.hint # Undefined
           /\ req[r].sql = Undefined

\* C7: a grading judged Correct with username and questionId is answered 200
\* with the verdict, whatever became of the persistence step.
C7_ResponseIgnoresStorage ==
    \A r \in Reqs :
        IsDone(r, "grade") /\ GradedCorrect(r) /\ BothSupplied(req[r].body)
            => /\ req[r].resp.status = 200
               /\ req[r].resp.body.status = "Correct"
               /\ req[r].resp.body.hint = req[r].parsed.hint

\* A Correct grading whose storage statement failed was answered 200.
C7_Witness ==
    \E r \in Reqs :
        /\ IsDone(r, "grade") /\ GradedCorrect(r) /\ BothSupplied(req[r].body)
        /\ req[r].err = ErrStorage /\ req[r].sql = "ended"
        /\ req[r].resp.status = 200

\* C8: a handler that is done has no open connection; one that is at a
\* statement holds the one it opened; one whose getDb() threw never had one
\* and has closed none.
C8_ConnectionsClosed ==
    \A r \in Reqs :
        /\ Done(r) => req[r].sql \in {Undefined, "ended"}
        /\ Done(r) /\ req[r].err = ErrNoUrl => req[r].sql = Undefined
        /\ Done(r) /\ req[r].err \in {ErrStorage, ErrDuplicate, ErrNoRelation, ErrNotInteger}
            => req[r].sql = "ended"
        /\ req[r].pc \notin {"idle", "fetch", "done"} => req[r].sql = "open"

\* A handler left by its catch, after a failed statement, closed its
\* connection.
C8_Witness ==
    \E r \in Reqs :
        /\ IsDone(r, "login") /\ req[r].err = ErrStorage
        /\ req[r].resp.status = 500 /\ req[r].sql = "ended"

\* C9: a grading whose external call answered with a success status and a
\* readable body ends answered 200 with a verdict object: status Correct, or
\* status Incorrect with a hint.
C9_AlwaysVerdict ==
    \A r \in Reqs :
        IsDone(r, "grade") /\ req[r].parsed.t # Undefined
            => /\ req[r].resp.status = 200
               /\ \/ req[r].resp.body.status = "Correct"
                  \/ /\ req[r].resp.body.status = "Incorrect"
                     /\ req[r].resp.body.hint # Undefined

\* the list the leaderboard must return for the tables as they are
C10_Expected(list) ==
    /\ \A x \in DOMAIN users :
        Cardinality({i \in 1..Len(list) : list[i].username = x.username}) = 1
    /\ \A i \in 1..Len(list) :
        /\ \E x \in DOMAIN users : x.username = list[i].username
        /\ list[i].done = Count(WhereUsername(progress, list[i].username))
    /\ \A i, j \in 1..Len(list) :
        i < j => \/ list[i].done > list[j].done
                 \/ /\ list[i].done = list[j].done
                    /\ UsernameRank(list[i].username) < UsernameRank(list[j].username)

\* where the query runs, the list it answers is the expected one
C10_ListRight ==
    [][\A r \in Reqs :
        /\ req[r].kind = "leaderboard" /\ req[r].pc = "query"
        /\ req'[r].resp.status = 200
        => C10_Expected(req'[r].resp.body.list)]_vars

\* C10: with at least one registered user, and none of its statements failing
\* for an outside reason, the leaderboard is answered 200.
C10_LeaderboardAnswers ==
    \A r \in Reqs :
        IsDone(r, "leaderboard") /\ req[r].pre /\ req[r].err # ErrStorage
            => req[r].resp.status = 200

=============================================================================
